---- MODULE Spec2Model ----
\* Model of the video-generation backend: the POST /generate-video handler
\* (src/src/index.ts:158-293), the POST /webhook handler
\* (src/src/index.ts:295-329) and the helpers they call
\* (src/unnamed/part_000: generateAudio, uploadToS3, uploadVideoToS3,
\* transcribeAudio, generateVideo).
\*
\* Node runs one handler continuation at a time; a continuation runs from the
\* completion of one awaited external call up to the next await.  Every action
\* below is one such continuation, so the interleavings TLC explores are the
\* orders in which the external calls of the in-flight pipelines complete.
EXTENDS Integers, Sequences, FiniteSets, TLC

\* ---------------------------------------------------------------- bounds
MaxScenes == 2

\* ------------------------------------------------------ JavaScript values
\* An optional field is a tuple: <<>> when the field is absent (undefined),
\* <<v>> when it holds v.  null is a tuple of its own.
Undefined == <<>>
Some(v) == <<v>>
JsNull == <<"null", "null">>

\* A narration text: the empty string, the whole-video text, or the text of
\* scene i (distinct per scene, so that a call can be traced to its scene).
EmptyText == <<>>
WholeText == <<"whole">>
SceneText(i) == <<"scene", i>>

\* JavaScript truthiness of an optional string / text field.
TruthyString(o) == o # Undefined /\ o[1] # ""
TruthyText(o) == o # Undefined /\ o[1] # EmptyText

\* ------------------------------------------------------------- requests
SceneIds == 1..MaxScenes
\* Pipeline 0 is the whole-video narration; pipeline i >= 1 is scene i.
Pipes == 0..MaxScenes

ClipAt(i) == { [audio_text |-> t] : t \in {Undefined, Some(EmptyText), Some(SceneText(i))} }
ClipLists == UNION { { c \in [1..n -> UNION {ClipAt(i) : i \in SceneIds}] :
                          \A i \in 1..n : c[i] \in ClipAt(i) } : n \in 0..MaxScenes }

RequestBodies ==
    [ id : {Undefined, Some(""), Some("v1")},
      clips : {Undefined} \cup { Some(c) : c \in ClipLists },
      elevenlabs_voice_id : {Undefined, Some("voice")},
      audio_text : {Undefined, Some(WholeText)},
      lang_code : {"en", "he"} ]

\* ------------------------------------------------------------- webhooks
\* Two deliveries of the rendering backend's callback, handled concurrently.
WebhookCalls == {1, 2}

\* A notification: the fields the handler reads, and `message`, which only the
\* notification the handler synthesizes carries.
Notification(type, outputUrl, customData) ==
    [type |-> type, outputUrl |-> outputUrl, customData |-> customData,
     message |-> Undefined]

VideoIds == {"v1", "v2"}
Payloads ==
    { Notification(Some("error"), Undefined, Some([video_id |-> Some("v1")])) }
    \cup { Notification(Some("success"), Some("render/out.mp4"), c) :
             c \in {Undefined, Some([video_id |-> Undefined])}
                   \cup { Some([video_id |-> Some(v)]) : v \in VideoIds } }

\* Mutant: the handler ignores the notification's video_id.
WebhookVideoId_AlwaysDefault(payload) == "default_id"

\* index.ts:307: payload.customData?.video_id || "default_id"
WebhookVideoId(payload) ==
    IF payload.customData # Undefined /\ TruthyString(payload.customData[1].video_id)
    THEN payload.customData[1].video_id[1]
    ELSE "default_id"

\* part_000:176-177: the temporary files of uploadVideoToS3
TempInput(id) == <<"input", id>>
TempOutput(id) == <<"output", id>>
TempFiles == { TempInput(id) : id \in VideoIds \cup {"default_id"} }
             \cup { TempOutput(id) : id \in VideoIds \cup {"default_id"} }

VARIABLES
    bucketName,     \* process.env.AWS_BUCKET_NAME ("" when not configured)
    now,            \* the last value Date.now() returned (0: not read yet)
    req,            \* requestBody of the POST /generate-video being handled
    hpc,            \* where the /generate-video handler is
    pipe,           \* per pipeline: position and local variables
    synthCalls,     \* per pipeline: calls made to a synthesis backend
    uploadCalls,    \* per pipeline: PutObject calls made to object storage
    transCalls,     \* per pipeline: calls made to the transcription backend
    renderCalls,    \* renderMediaOnLambda calls made
    progressCalls,  \* getRenderProgress calls made
    submission,     \* the render submission: none, pending, accepted, failed
    renderState,    \* the render job at the backend: none, rendering, done
    webhookSent,    \* the backend has posted its completion callback
    responses,      \* HTTP responses sent for the /generate-video request
    wpc,            \* per webhook call: where the /webhook handler is
    wpayload,       \* per webhook call: req.body
    wkey,           \* per webhook call: fileName of uploadVideoToS3
    fs,             \* the files of os.tmpdir(): name -> content, if it exists
    videoCalls,     \* per webhook call: uploadVideoToS3 calls made
    putCalls,       \* per webhook call: PutObject calls made for the video
    postsSent,      \* per webhook call: bodies posted to OUTPUT_SERVER_URL
    postsDelivered, \* per webhook call: bodies the downstream endpoint accepted
    wresponses,     \* per webhook call: HTTP responses sent
    apc,            \* where the generateAudio call under study is
    audioParams,    \* the AudioParams generateAudio was called with
    backendCalls,   \* calls that generateAudio made to a synthesis backend
    audioBuffer,    \* generateAudio's audioBuffer
    tmp,            \* trimSilence's tempFile / outputFile: do they exist
    detected,       \* what getSilentParts reported to trimSilence
    ffmpegRuns,     \* trimming transforms started: start time and duration
    trimOutcome,    \* how trimSilence completes: returned bytes or threw
    audioResult,    \* how generateAudio completed
    unit            \* the helper call under study: function, input, result

genVars == <<req, hpc, pipe, synthCalls, uploadCalls, transCalls, renderCalls,
             progressCalls, submission, renderState, webhookSent, responses>>

whVars == <<wpc, wpayload, wkey, fs, videoCalls, putCalls, postsSent,
            postsDelivered, wresponses>>

auVars == <<apc, audioParams, backendCalls, audioBuffer, tmp, detected, ffmpegRuns, trimOutcome, audioResult>>

vars == <<bucketName, now, genVars, whVars, auVars, unit>>

NoPipe == [pc |-> "none", audio |-> Undefined, key |-> Undefined,
           url |-> Undefined, captions |-> Undefined]

\* A pipeline whose async function has thrown: its locals are gone.
Failed == [NoPipe EXCEPT !.pc = "failed"]

Init ==
    /\ bucketName \in {"", "bucket"}
    /\ now = 0
    /\ req = Undefined
    /\ hpc = "idle"
    /\ pipe = [i \in Pipes |-> NoPipe]
    /\ synthCalls = [i \in Pipes |-> <<>>]
    /\ uploadCalls = [i \in Pipes |-> <<>>]
    /\ transCalls = [i \in Pipes |-> <<>>]
    /\ renderCalls = <<>>
    /\ progressCalls = 0
    /\ submission = "none"
    /\ renderState = "none"
    /\ webhookSent = FALSE
    /\ responses = <<>>
    /\ wpc = [w \in WebhookCalls |-> "idle"]
    /\ wpayload = [w \in WebhookCalls |-> Undefined]
    /\ wkey = [w \in WebhookCalls |-> Undefined]
    /\ fs = [f \in TempFiles |-> Undefined]
    /\ apc = "idle"
    /\ audioParams = Undefined
    /\ backendCalls = <<>>
    /\ audioBuffer = Undefined
    /\ tmp = [input |-> FALSE, output |-> FALSE]
    /\ detected = Undefined
    /\ ffmpegRuns = <<>>
    /\ trimOutcome = Undefined
    /\ audioResult = Undefined
    /\ unit = [fn |-> "none"]
    /\ videoCalls = [w \in WebhookCalls |-> <<>>]
    /\ putCalls = [w \in WebhookCalls |-> <<>>]
    /\ postsSent = [w \in WebhookCalls |-> <<>>]
    /\ postsDelivered = [w \in WebhookCalls |-> <<>>]
    /\ wresponses = [w \in WebhookCalls |-> <<>>]

\* ------------------------------------------------------------- responses
Response(status, message) == [status |-> status, message |-> message]
MissingFields == Response(400, "Missing required fields in request body.")
Triggered == Response(200, "Video Triggered Successfully")
TryAgainLater == Response(200, "There is some error generation video, try again later...")
InternalError == Response(500, "Internal Server Error")

\* ------------------------------------------------- POST /generate-video
\* Mutant: the check forgets elevenlabs_voice_id.
MissingRequired_NoVoice(body) ==
    \/ ~TruthyString(body.id)
    \/ body.clips = Undefined

\* index.ts:164-168: the required-field check.  An empty clips array is truthy.
MissingRequired(body) ==
    \/ ~TruthyString(body.id)
    \/ body.clips = Undefined
    \/ ~TruthyString(body.elevenlabs_voice_id)

\* Mutant: the top-level audio_text is ignored.
WholeVideoMode_Never(body) == FALSE

\* index.ts:178: whole-video narration when the top-level audio_text is truthy.
WholeVideoMode(body) == TruthyText(body.audio_text)

\* index.ts:223: a scene without (truthy) audio_text is returned as it is.
Narrated(clip) == TruthyText(clip.audio_text)

\* part_000:52-83: generateAudio picks the backend from lang_code alone and
\* issues the synthesis call.
SynthCall(body, text) ==
    IF body.lang_code = "he"
    THEN [backend |-> "secondary", text |-> text, voice |-> Some("coral")]
    ELSE [backend |-> "primary", text |-> text, voice |-> body.elevenlabs_voice_id]

\* The bytes a synthesis backend returns for a call.
SynthOutput(call) == [text |-> call.text, backend |-> call.backend, trimmed |-> FALSE]

\* part_000:128: fileName = `${id}_${Date.now()}.mp3`
AudioKey(id, time) == [id |-> id, time |-> time, ext |-> "mp3"]

\* part_000:148: fileUrl = `https://${bucketName}.s3.amazonaws.com/${fileName}`
FileUrl(key) == [bucket |-> bucketName, key |-> key]

\* part_000:257-265: transcribeAudio's result for the words the backend reports.
ToCaption(word) == [text |-> word.text, start |-> word.start, end |-> word.end]
CaptionsOf(words) ==
    IF words = Undefined THEN JsNull
    ELSE Some([k \in 1..Len(words[1]) |-> ToCaption(words[1][k])])

\* index.ts:208, 260: captions || []
OrEmptyList(captions) ==
    IF captions = JsNull \/ captions = Undefined THEN <<>> ELSE captions[1]

\* Word lists a transcription backend may report (undefined: no word-level data).
Word(s, e) == [text |-> "w", start |-> s, end |-> e]
WordLists == {Undefined, Some(<<>>), Some(<<Word(0, 1)>>)}

\* index.ts:210-217 and 221-262: the scene list handed to generateVideo.
\* Mutant: the whole-video branch gives each scene its own empty caption list.
WholeScene_EmptyCaptions(clip) ==
    [audio_text |-> clip.audio_text, audio_url |-> JsNull, captions |-> Some(<<>>)]
WholeScene(clip) ==
    [audio_text |-> clip.audio_text, audio_url |-> JsNull, captions |-> JsNull]
\* Mutant: the merge drops the uploaded URL, as the whole-video branch does.
MergedScene_NullUrl(clip, p) ==
    [audio_text |-> clip.audio_text, audio_url |-> JsNull,
     captions |-> Some(OrEmptyList(p.captions))]
\* Mutant: the merge builds the scene without the narration text.
MergedScene_DropsText(clip, p) ==
    [audio_text |-> Undefined, audio_url |-> p.url,
     captions |-> Some(OrEmptyList(p.captions))]
MergedScene(clip, p) ==
    [audio_text |-> clip.audio_text, audio_url |-> p.url,
     captions |-> Some(OrEmptyList(p.captions))]
\* Mutant: a scene without narration text goes through the merge of
\* index.ts:253-261 all the same and comes out with an empty caption list.
SkippedScene_Defaulted(clip) ==
    [audio_text |-> clip.audio_text, audio_url |-> Undefined, captions |-> Some(<<>>)]

\* index.ts:221-223: a scene without narration text is returned as received
\* (a field the clip does not have stays undefined).
SkippedScene(clip) ==
    [audio_text |-> clip.audio_text, audio_url |-> Undefined, captions |-> Undefined]

\* Mutant: the scene list comes out in reverse order of the clips.
UpdatedScenes_Reversed(body, p) ==
    LET clips == body.clips[1]
        n == Len(clips)
    IN IF WholeVideoMode(body)
       THEN [i \in 1..n |-> WholeScene(clips[n + 1 - i])]
       ELSE [i \in 1..n |->
               IF Narrated(clips[n + 1 - i])
               THEN MergedScene(clips[n + 1 - i], p[n + 1 - i])
               ELSE SkippedScene(clips[n + 1 - i])]

\* index.ts:210-217, 220-264: Promise.all over requestBody.clips.map keeps
\* the position of each clip's result.
UpdatedScenes(body, p) ==
    LET clips == body.clips[1] IN
    IF WholeVideoMode(body)
    THEN [i \in 1..Len(clips) |-> WholeScene(clips[i])]
    ELSE [i \in 1..Len(clips) |->
            IF Narrated(clips[i]) THEN MergedScene(clips[i], p[i])
            ELSE SkippedScene(clips[i])]

\* Mutant: generateVideo registers the module-level webhook of part_000:28-31,
\* which has no customData.
RenderJob_ModuleWebhook(body, p) ==
    [ id |-> body.id[1],
      audio_text |-> body.audio_text,
      clips |-> body.clips[1],
      audio_url |-> IF WholeVideoMode(body) THEN p[0].url ELSE Undefined,
      captions |-> IF WholeVideoMode(body) THEN Some(OrEmptyList(p[0].captions))
                   ELSE Undefined,
      scenes |-> UpdatedScenes(body, p),
      customData |-> Undefined ]

\* index.ts:207-208, 269-272 and part_000:286-305: videoArgs = {...requestBody,
\* scenes} and the webhook registration generateVideo builds from it, with
\* customData: {video_id: inputProps.id}.
RenderJob(body, p) ==
    [ id |-> body.id[1],
      audio_text |-> body.audio_text,
      clips |-> body.clips[1],
      audio_url |-> IF WholeVideoMode(body) THEN p[0].url ELSE Undefined,
      captions |-> IF WholeVideoMode(body) THEN Some(OrEmptyList(p[0].captions))
                   ELSE Undefined,
      scenes |-> UpdatedScenes(body, p),
      customData |-> Some([video_id |-> body.id]) ]

\* Mutant: a join that waits for every pipeline to settle and ignores failures
\* (Promise.allSettled without a check of the outcomes).
JoinState_IgnoresFailures(p) ==
    IF \A i \in Pipes : p[i].pc \in {"none", "done", "failed"} THEN "resolved"
    ELSE "pending"

\* Mutant: a join that resolves as soon as one pipeline is done (Promise.race).
JoinState_FirstDone(p) ==
    IF \E i \in Pipes : p[i].pc = "failed" THEN "rejected"
    ELSE IF \E i \in Pipes : p[i].pc = "done" THEN "resolved"
    ELSE IF \A i \in Pipes : p[i].pc = "none" THEN "resolved"
    ELSE "pending"

\* index.ts:220 Promise.all (and the sequential awaits of the whole-video
\* branch): rejected as soon as one pipeline has failed, resolved once every
\* started pipeline is done.
JoinState(p) ==
    IF \E i \in Pipes : p[i].pc = "failed" THEN "rejected"
    ELSE IF \A i \in Pipes : p[i].pc \in {"none", "done"} THEN "resolved"
    ELSE "pending"

\* Mutant: generateVideo rethrows the submission error.
generateVideo_Rethrows(accepted) ==
    IF accepted THEN [threw |-> FALSE, value |-> "true"]
    ELSE [threw |-> TRUE, value |-> "null"]

\* part_000:277-348: what generateVideo gives its caller when the submission
\* was accepted / was rejected.
generateVideo(accepted) ==
    IF accepted THEN [threw |-> FALSE, value |-> "true"]
    ELSE [threw |-> FALSE, value |-> "null"]

\* index.ts:275-292: the response for generateVideo's outcome.
ReplyFor(outcome) ==
    IF outcome.threw THEN InternalError
    ELSE IF outcome.value = "true" THEN Triggered
    ELSE TryAgainLater

\* Mutant: the handler has no catch block, so a rejected join ends it without
\* a response.
HandlerAfter_NoCatch(body, p) ==
    IF hpc # "await_narration" \/ JoinState(p) = "pending"
    THEN UNCHANGED <<hpc, responses, renderCalls, submission>>
    ELSE IF JoinState(p) = "rejected"
    THEN /\ hpc' = "done"
         /\ UNCHANGED <<responses, renderCalls, submission>>
    ELSE /\ hpc' = "await_render"
         /\ renderCalls' = Append(renderCalls, RenderJob(body, p))
         /\ submission' = "pending"
         /\ UNCHANGED responses

\* The handler's continuation after a pipeline event left the pipelines as p:
\* nothing while the join is pending (or when the handler is no longer
\* waiting), the catch block's 500 on rejection, the render submission on
\* resolution.
HandlerAfter(body, p) ==
    IF hpc # "await_narration" \/ JoinState(p) = "pending"
    THEN UNCHANGED <<hpc, responses, renderCalls, submission>>
    ELSE IF JoinState(p) = "rejected"
    THEN /\ hpc' = "done"
         /\ responses' = Append(responses, InternalError)
         /\ UNCHANGED <<renderCalls, submission>>
    ELSE /\ hpc' = "await_render"
         /\ renderCalls' = Append(renderCalls, RenderJob(body, p))
         /\ submission' = "pending"
         /\ UNCHANGED responses

\* index.ts:158-236: a request arrives; validation, then the synchronous part
\* of the fan-out: every narrated scene's synthesis call (or the whole-video
\* one) is issued before the handler first yields.
GenerateVideoRequest(body) ==
    /\ hpc = "idle"
    /\ req' = Some(body)
    /\ IF MissingRequired(body)
       THEN /\ hpc' = "done"
            /\ responses' = Append(responses, MissingFields)
            /\ UNCHANGED <<pipe, synthCalls, renderCalls, submission>>
       ELSE LET clips == body.clips[1]
                started == IF WholeVideoMode(body) THEN {0}
                           ELSE {i \in 1..Len(clips) : Narrated(clips[i])}
                textOf(i) == IF i = 0 THEN body.audio_text[1] ELSE clips[i].audio_text[1]
                p2 == [i \in Pipes |-> IF i \in started
                                       THEN [NoPipe EXCEPT !.pc = "synth"] ELSE NoPipe]
            IN /\ pipe' = p2
               /\ synthCalls' = [i \in Pipes |->
                                    IF i \in started
                                    THEN <<SynthCall(body, textOf(i))>> ELSE <<>>]
               /\ IF started = {}
                  THEN /\ hpc' = "await_render"
                       /\ renderCalls' = Append(renderCalls, RenderJob(body, p2))
                       /\ submission' = "pending"
                       /\ UNCHANGED responses
                  ELSE /\ hpc' = "await_narration"
                       /\ UNCHANGED <<responses, renderCalls, submission>>
    /\ UNCHANGED <<bucketName, now, uploadCalls, transCalls, progressCalls,
                   renderState, webhookSent>>
    /\ UNCHANGED <<whVars, auVars, unit>>

\* part_000:68-108: the synthesis backend call of pipeline i settles.  On
\* success generateAudio goes on to trimSilence; on failure it throws.
SynthReturn(i, ok) ==
    /\ pipe[i].pc = "synth"
    /\ LET call == synthCalls[i][Len(synthCalls[i])]
           p2 == IF ok
                 THEN [pipe EXCEPT ![i].pc = "trim", ![i].audio = Some(SynthOutput(call))]
                 ELSE [pipe EXCEPT ![i] = Failed]
       IN /\ pipe' = p2
          /\ HandlerAfter(req[1], p2)
    /\ UNCHANGED <<bucketName, now, req, synthCalls, uploadCalls, transCalls,
                   progressCalls, renderState, webhookSent>>
    /\ UNCHANGED <<whVars, auVars, unit>>

\* Mutant: uploadToS3 is not awaited, so transcribeAudio is submitted while the
\* upload is still in flight.
TrimReturn_NoAwaitUpload(i, outcome, elapsed) ==
    /\ pipe[i].pc = "trim"
    /\ now' = IF bucketName = "" THEN now ELSE now + elapsed
    /\ bucketName = "" => elapsed = 0
    /\ (bucketName # "" /\ now = 0) => elapsed = 1
    /\ LET raw == pipe[i].audio[1]
           buffer == IF outcome = "trimmed" THEN [raw EXCEPT !.trimmed = TRUE] ELSE raw
           key == AudioKey(req[1].id[1], now')
           p2 == IF bucketName = ""
                 THEN [pipe EXCEPT ![i] = Failed]
                 ELSE [pipe EXCEPT ![i].pc = "upload", ![i].audio = Some(buffer),
                                   ![i].key = Some(key)]
       IN /\ pipe' = p2
          /\ uploadCalls' = IF bucketName = "" THEN uploadCalls
                            ELSE [uploadCalls EXCEPT ![i] =
                                     Append(@, [key |-> key, body |-> buffer])]
          /\ transCalls' = IF bucketName = "" THEN transCalls
                           ELSE [transCalls EXCEPT ![i] = Append(@, FileUrl(key))]
          /\ HandlerAfter(req[1], p2)
    /\ UNCHANGED <<bucketName, req, synthCalls, progressCalls, renderState, webhookSent>>
    /\ UNCHANGED <<whVars, auVars, unit>>

\* Mutant: generateAudio does not catch trimSilence's exception.
TrimReturn_TrimmerThrows(i, outcome, elapsed) ==
    /\ pipe[i].pc = "trim"
    /\ now' = IF bucketName = "" THEN now ELSE now + elapsed
    /\ bucketName = "" => elapsed = 0
    /\ (bucketName # "" /\ now = 0) => elapsed = 1
    /\ LET raw == pipe[i].audio[1]
           buffer == IF outcome = "trimmed" THEN [raw EXCEPT !.trimmed = TRUE] ELSE raw
           key == AudioKey(req[1].id[1], now')
           thrown == bucketName = "" \/ outcome = "threw"
           p2 == IF thrown
                 THEN [pipe EXCEPT ![i] = Failed]
                 ELSE [pipe EXCEPT ![i].pc = "upload", ![i].audio = Some(buffer),
                                   ![i].key = Some(key)]
       IN /\ pipe' = p2
          /\ uploadCalls' = IF thrown THEN uploadCalls
                            ELSE [uploadCalls EXCEPT ![i] =
                                     Append(@, [key |-> key, body |-> buffer])]
          /\ HandlerAfter(req[1], p2)
    /\ UNCHANGED <<bucketName, req, synthCalls, transCalls, progressCalls,
                   renderState, webhookSent>>
    /\ UNCHANGED <<whVars, auVars, unit>>

\* part_000:98-105 and 117-146: trimSilence settles (trimmed bytes, the
\* original bytes, or an exception generateAudio absorbs); generateAudio
\* returns and uploadToS3 runs up to s3.send, throwing before any storage call
\* when the bucket is not configured.  Date.now() is read only when the key is
\* built: since its last reading the millisecond clock has advanced or not.
TrimReturn(i, outcome, elapsed) ==
    /\ pipe[i].pc = "trim"
    /\ now' = IF bucketName = "" THEN now ELSE now + elapsed
    /\ bucketName = "" => elapsed = 0
    /\ (bucketName # "" /\ now = 0) => elapsed = 1
    /\ LET raw == pipe[i].audio[1]
           buffer == IF outcome = "trimmed" THEN [raw EXCEPT !.trimmed = TRUE] ELSE raw
           key == AudioKey(req[1].id[1], now')
           p2 == IF bucketName = ""
                 THEN [pipe EXCEPT ![i] = Failed]
                 ELSE [pipe EXCEPT ![i].pc = "upload", ![i].audio = Some(buffer),
                                   ![i].key = Some(key)]
       IN /\ pipe' = p2
          /\ uploadCalls' = IF bucketName = "" THEN uploadCalls
                            ELSE [uploadCalls EXCEPT ![i] =
                                     Append(@, [key |-> key, body |-> buffer])]
          /\ HandlerAfter(req[1], p2)
    /\ UNCHANGED <<bucketName, req, synthCalls, transCalls, progressCalls,
                   renderState, webhookSent>>
    /\ UNCHANGED <<whVars, auVars, unit>>

\* part_000:146-155 and 241-255: s3.send settles; on success uploadToS3
\* returns the file URL and transcribeAudio submits it.
UploadReturn(i, ok) ==
    /\ pipe[i].pc = "upload"
    /\ LET url == FileUrl(pipe[i].key[1])
           p2 == IF ok
                 THEN [pipe EXCEPT ![i].pc = "transcribe", ![i].url = Some(url)]
                 ELSE [pipe EXCEPT ![i] = Failed]
       IN /\ pipe' = p2
          /\ transCalls' = IF ok THEN [transCalls EXCEPT ![i] = Append(@, url)]
                           ELSE transCalls
          /\ HandlerAfter(req[1], p2)
    /\ UNCHANGED <<bucketName, now, req, synthCalls, uploadCalls, progressCalls,
                   renderState, webhookSent>>
    /\ UNCHANGED <<whVars, auVars, unit>>

\* Mutant: transcribeAudio throws when the backend reports no word-level data.
TranscribeReturn_NoWordsThrows(i, ok, words) ==
    /\ pipe[i].pc = "transcribe"
    /\ LET p2 == IF ok /\ words # Undefined
                 THEN [pipe EXCEPT ![i].pc = "done", ![i].captions = CaptionsOf(words)]
                 ELSE [pipe EXCEPT ![i] = Failed]
       IN /\ pipe' = p2
          /\ HandlerAfter(req[1], p2)
    /\ UNCHANGED <<bucketName, now, req, synthCalls, uploadCalls, transCalls,
                   progressCalls, renderState, webhookSent>>
    /\ UNCHANGED <<whVars, auVars, unit>>

\* part_000:250-269: the transcription settles; the pipeline of scene i ends.
TranscribeReturn(i, ok, words) ==
    /\ pipe[i].pc = "transcribe"
    /\ LET p2 == IF ok
                 THEN [pipe EXCEPT ![i].pc = "done", ![i].captions = CaptionsOf(words)]
                 ELSE [pipe EXCEPT ![i] = Failed]
       IN /\ pipe' = p2
          /\ HandlerAfter(req[1], p2)
    /\ UNCHANGED <<bucketName, now, req, synthCalls, uploadCalls, transCalls,
                   progressCalls, renderState, webhookSent>>
    /\ UNCHANGED <<whVars, auVars, unit>>

\* The rendering backend accepts the submission and starts the render job.
RenderAccept ==
    /\ submission = "pending"
    /\ submission' = "accepted"
    /\ renderState' = "rendering"
    /\ UNCHANGED <<bucketName, now, req, hpc, pipe, synthCalls, uploadCalls,
                   transCalls, renderCalls, progressCalls, webhookSent, responses>>
    /\ UNCHANGED <<whVars, auVars, unit>>

\* Mutant: generateVideo polls the render progress and returns only once the
\* render is done (the loop that part_000:320-343 leaves commented out).
RenderSubmitReturn_Polling(ok) ==
    /\ hpc = "await_render"
    /\ IF ok
       THEN /\ submission = "accepted"
            /\ renderState = "done"
            /\ progressCalls' = progressCalls + 1
            /\ UNCHANGED submission
       ELSE /\ submission = "pending"
            /\ submission' = "failed"
            /\ UNCHANGED progressCalls
    /\ hpc' = "done"
    /\ responses' = Append(responses, ReplyFor(generateVideo(ok)))
    /\ UNCHANGED <<bucketName, now, req, pipe, synthCalls, uploadCalls, transCalls,
                   renderCalls, renderState, webhookSent>>
    /\ UNCHANGED <<whVars, auVars, unit>>

\* part_000:295-314 and index.ts:275-286: renderMediaOnLambda settles in the
\* handler (resolved once the backend accepted, or rejected); generateVideo
\* returns and the handler responds.
RenderSubmitReturn(ok) ==
    /\ hpc = "await_render"
    /\ IF ok THEN submission = "accepted" /\ UNCHANGED submission
       ELSE submission = "pending" /\ submission' = "failed"
    /\ hpc' = "done"
    /\ responses' = Append(responses, ReplyFor(generateVideo(ok)))
    /\ UNCHANGED <<bucketName, now, req, pipe, synthCalls, uploadCalls, transCalls,
                   renderCalls, progressCalls, renderState, webhookSent>>
    /\ UNCHANGED <<whVars, auVars, unit>>

\* The rendering backend finishes the job and posts to the registered webhook.
RenderFinish ==
    /\ renderState = "rendering"
    /\ renderState' = "done"
    /\ webhookSent' = TRUE
    /\ UNCHANGED <<bucketName, now, req, hpc, pipe, synthCalls, uploadCalls,
                   transCalls, renderCalls, progressCalls, submission, responses>>
    /\ UNCHANGED <<whVars, auVars, unit>>

\* ---------------------------------------------------------- POST /webhook
Acknowledge(text) == [status |-> 200, text |-> text]
\* A rejected promise of an async handler is not answered by Express 4 (the
\* request is left without a response); Express 5 answers it with a 500.
RejectionResponse == [status |-> 500, text |-> "Internal Server Error"]

\* index.ts:321-325: the notification the catch block posts.
SynthesizedError ==
    [type |-> Some("error"), outputUrl |-> Undefined, customData |-> Undefined,
     message |-> Some("Error processing webhook from backend server")]

Republished_OnlyUrl(payload, finalUrl) ==
    [type |-> Undefined, outputUrl |-> Some(finalUrl), customData |-> Undefined,
     message |-> Undefined]

\* index.ts:313-316: {...payload, outputUrl: finalUrl}
Republished(payload, finalUrl) == [payload EXCEPT !.outputUrl = Some(finalUrl)]

\* part_000:175: fileName = `${id}_${Date.now()}.mp4`
VideoKey(id, time) == [id |-> id, time |-> time, ext |-> "mp4"]

\* index.ts:319-325: the catch block starts posting the synthesized error.
WebhookCatch(w) ==
    /\ wpc' = [wpc EXCEPT ![w] = "post_catch"]
    /\ postsSent' = [postsSent EXCEPT ![w] = Append(@, SynthesizedError)]

\* index.ts:295-310 and part_000:164-180: a notification arrives.  An error
\* notification is posted downstream as it is; otherwise uploadVideoToS3 runs
\* up to the download, throwing at once when the bucket is not configured.
WebhookRequest(w, payload, elapsed) ==
    /\ wpc[w] = "idle"
    /\ \A v \in WebhookCalls : v < w => wpc[v] # "idle"
    /\ wpayload' = [wpayload EXCEPT ![w] = Some(payload)]
    /\ IF payload.type = Some("error")
       THEN /\ elapsed = 0
            /\ wpc' = [wpc EXCEPT ![w] = "post_error"]
            /\ postsSent' = [postsSent EXCEPT ![w] = Append(@, payload)]
            /\ UNCHANGED <<now, wkey, videoCalls>>
       ELSE LET id == WebhookVideoId(payload) IN
            /\ videoCalls' = [videoCalls EXCEPT ![w] =
                                 Append(@, [videoUrl |-> payload.outputUrl, id |-> id])]
            /\ IF bucketName = ""
               THEN /\ elapsed = 0
                    /\ WebhookCatch(w)
                    /\ UNCHANGED <<now, wkey>>
               ELSE /\ now = 0 => elapsed = 1
                    /\ now' = now + elapsed
                    /\ wkey' = [wkey EXCEPT ![w] = Some(VideoKey(id, now'))]
                    /\ wpc' = [wpc EXCEPT ![w] = "download"]
                    /\ UNCHANGED postsSent
    /\ UNCHANGED <<bucketName, fs, putCalls, postsDelivered, wresponses>>
    /\ UNCHANGED <<genVars, auVars, unit>>

\* part_000:180-200: the download settles; on success the bytes are written to
\* tempInput and ffmpeg is started on it.
DownloadReturn(w, ok) ==
    /\ wpc[w] = "download"
    /\ LET id == wkey[w][1].id IN
       IF ok
       THEN /\ fs' = [fs EXCEPT ![TempInput(id)] = Some([video |-> w, rewritten |-> FALSE])]
            /\ wpc' = [wpc EXCEPT ![w] = "ffmpeg"]
            /\ UNCHANGED postsSent
       ELSE /\ WebhookCatch(w)
            /\ UNCHANGED fs
    /\ UNCHANGED <<bucketName, now, wpayload, wkey, videoCalls, putCalls,
                   postsDelivered, wresponses>>
    /\ UNCHANGED <<genVars, auVars, unit>>

\* part_000:184-220: ffmpeg settles.  It succeeds only if its input file is
\* there; its output is then read back and sent to object storage.
FfmpegReturn(w, ok) ==
    /\ wpc[w] = "ffmpeg"
    /\ LET id == wkey[w][1].id
           input == fs[TempInput(id)]
       IN
       /\ ok => input # Undefined
       /\ IF ok
          THEN LET output == [input[1] EXCEPT !.rewritten = TRUE] IN
               /\ fs' = [fs EXCEPT ![TempOutput(id)] = Some(output)]
               /\ putCalls' = [putCalls EXCEPT ![w] =
                                  Append(@, [key |-> wkey[w][1], body |-> output])]
               /\ wpc' = [wpc EXCEPT ![w] = "s3"]
               /\ UNCHANGED postsSent
          ELSE /\ WebhookCatch(w)
               /\ UNCHANGED <<fs, putCalls>>
    /\ UNCHANGED <<bucketName, now, wpayload, wkey, videoCalls, postsDelivered,
                   wresponses>>
    /\ UNCHANGED <<genVars, auVars, unit>>

\* part_000:220-233 and index.ts:313-316: s3.send settles.  On success the two
\* temporary files are unlinked (unlinkSync throws when the file is gone) and
\* the handler posts the notification with the new URL.
S3Return(w, ok) ==
    /\ wpc[w] = "s3"
    /\ LET id == wkey[w][1].id
           hasInput == fs[TempInput(id)] # Undefined
           hasOutput == fs[TempOutput(id)] # Undefined
       IN
       IF ok /\ hasInput /\ hasOutput
       THEN /\ fs' = [fs EXCEPT ![TempInput(id)] = Undefined,
                                ![TempOutput(id)] = Undefined]
            /\ wpc' = [wpc EXCEPT ![w] = "post_ok"]
            /\ postsSent' = [postsSent EXCEPT ![w] =
                                Append(@, Republished(wpayload[w][1], FileUrl(wkey[w][1])))]
       ELSE /\ fs' = IF ok /\ hasInput
                     THEN [fs EXCEPT ![TempInput(id)] = Undefined] ELSE fs
            /\ WebhookCatch(w)
    /\ UNCHANGED <<bucketName, now, wpayload, wkey, videoCalls, putCalls,
                   postsDelivered, wresponses>>
    /\ UNCHANGED <<genVars, auVars, unit>>

\* index.ts:301-302, 313-318: the downstream POST of the try block settles.
ForwardReturn(w, ok) ==
    /\ wpc[w] \in {"post_error", "post_ok"}
    /\ IF ok
       THEN /\ postsDelivered' = [postsDelivered EXCEPT ![w] =
                                     Append(@, postsSent[w][Len(postsSent[w])])]
            /\ wresponses' = [wresponses EXCEPT ![w] = Append(@,
                                 IF wpc[w] = "post_error"
                                 THEN Acknowledge("Error in video processing")
                                 ELSE Acknowledge("Video processed and forwarded"))]
            /\ wpc' = [wpc EXCEPT ![w] = "done"]
            /\ UNCHANGED postsSent
       ELSE /\ WebhookCatch(w)
            /\ UNCHANGED <<postsDelivered, wresponses>>
    /\ UNCHANGED <<bucketName, now, wpayload, wkey, fs, videoCalls, putCalls>>
    /\ UNCHANGED <<genVars, auVars, unit>>

\* index.ts:321-327: the POST of the catch block settles.  When it fails the
\* handler's promise rejects: nothing catches it.
CatchPostReturn(w, ok, answered) ==
    /\ wpc[w] = "post_catch"
    /\ IF ok
       THEN /\ answered
            /\ postsDelivered' = [postsDelivered EXCEPT ![w] = Append(@, SynthesizedError)]
            /\ wresponses' = [wresponses EXCEPT ![w] =
                                 Append(@, Acknowledge("Error processing webhook"))]
            /\ wpc' = [wpc EXCEPT ![w] = "done"]
       ELSE /\ wresponses' = IF answered
                             THEN [wresponses EXCEPT ![w] = Append(@, RejectionResponse)]
                             ELSE wresponses
            /\ wpc' = [wpc EXCEPT ![w] = "rejected"]
            /\ UNCHANGED postsDelivered
    /\ UNCHANGED <<bucketName, now, wpayload, wkey, fs, videoCalls, putCalls, postsSent>>
    /\ UNCHANGED <<genVars, auVars, unit>>

Next ==
    \/ \E body \in RequestBodies : GenerateVideoRequest(body)
    \/ \E i \in Pipes, ok \in BOOLEAN : SynthReturn(i, ok)
    \/ \E i \in Pipes, outcome \in {"trimmed", "original", "threw"}, elapsed \in {0, 1} :
          TrimReturn(i, outcome, elapsed)
    \/ \E i \in Pipes, ok \in BOOLEAN : UploadReturn(i, ok)
    \/ \E i \in Pipes, words \in WordLists : TranscribeReturn(i, TRUE, words)
    \/ \E i \in Pipes : TranscribeReturn(i, FALSE, Undefined)
    \/ RenderAccept
    \/ \E ok \in BOOLEAN : RenderSubmitReturn(ok)
    \/ RenderFinish

Spec == Init /\ [][Next]_vars

\* Every external call the handler awaits eventually returns or fails: each
\* pipeline's synthesis, trimming, upload and transcription, and the render
\* submission.
ExternalCallsSettle ==
    /\ \A i \in Pipes :
          /\ WF_vars(\E ok \in BOOLEAN : SynthReturn(i, ok))
          /\ WF_vars(\E outcome \in {"trimmed", "original", "threw"}, elapsed \in {0, 1} :
                        TrimReturn(i, outcome, elapsed))
          /\ WF_vars(\E ok \in BOOLEAN : UploadReturn(i, ok))
          /\ WF_vars(\/ \E words \in WordLists : TranscribeReturn(i, TRUE, words)
                     \/ TranscribeReturn(i, FALSE, Undefined))
    /\ WF_vars(RenderAccept \/ \E ok \in BOOLEAN : RenderSubmitReturn(ok))

SpecLive == Spec /\ ExternalCallsSettle

NextWebhook ==
    \/ \E w \in WebhookCalls, payload \in Payloads, elapsed \in {0, 1} :
          WebhookRequest(w, payload, elapsed)
    \/ \E w \in WebhookCalls, ok \in BOOLEAN : DownloadReturn(w, ok)
    \/ \E w \in WebhookCalls, ok \in BOOLEAN : FfmpegReturn(w, ok)
    \/ \E w \in WebhookCalls, ok \in BOOLEAN : S3Return(w, ok)
    \/ \E w \in WebhookCalls, ok \in BOOLEAN : ForwardReturn(w, ok)
    \/ \E w \in WebhookCalls, ok \in BOOLEAN, answered \in BOOLEAN :
          CatchPostReturn(w, ok, answered)

SpecWebhook == Init /\ [][NextWebhook]_vars

\* ------------------------------------------- generateAudio and trimSilence
\* One generateAudio call followed through trimSilence.  Times are in tenths
\* of a second, so Math.floor(t) === 0 reads t < 10 and "duration - 0.1"
\* reads duration - 1.
MaxTenths == 11
MaxParts == 2

\* part_002:61-71: the AudioParams studied.
AudioParamsSet ==
    [ elevenlabs_voice_id : {"voice"},
      elevenlabs_stability : {5},
      audio_text : {WholeText},
      lang_code : {"he", "HE", "en"},
      elevenlabs_speed : {Undefined, Some(2)} ]

\* part_000:45: elevenlabs_speed = 1
DefaultSpeed == 1
SpeedOf(params) ==
    IF params.elevenlabs_speed = Undefined THEN DefaultSpeed
    ELSE params.elevenlabs_speed[1]

\* part_000:52-83: the one backend call generateAudio makes.
BackendRequest_AlwaysPrimary(params) ==
    [backend |-> "primary", voice |-> params.elevenlabs_voice_id,
     text |-> params.audio_text,
     settings |-> Some([stability |-> params.elevenlabs_stability,
                        speed |-> SpeedOf(params)])]

BackendRequest(params) ==
    IF params.lang_code = "he"
    THEN [backend |-> "secondary", voice |-> "coral", text |-> params.audio_text,
          settings |-> Undefined]
    ELSE [backend |-> "primary", voice |-> params.elevenlabs_voice_id,
          text |-> params.audio_text,
          settings |-> Some([stability |-> params.elevenlabs_stability,
                             speed |-> SpeedOf(params)])]

\* What getSilentParts may report: up to MaxParts separate intervals in
\* ascending order, inside [0, durationInSeconds].
Interval(s, e) == [startInSeconds |-> s, endInSeconds |-> e]
Earliest(S) == CHOOSE t \in S : \A u \in S : t <= u
RECURSIVE PartsOf(_)
PartsOf(S) ==
    IF S = {} THEN <<>>
    ELSE LET s == Earliest(S)
             e == Earliest(S \ {s})
         IN <<Interval(s, e)>> \o PartsOf(S \ {s, e})
Detections ==
    UNION { { [silentParts |-> PartsOf(S), durationInSeconds |-> d] :
                S \in { T \in SUBSET (0..d) :
                          Cardinality(T) \in { 2 * n : n \in 0..MaxParts } } } :
            d \in 1..MaxTenths }

\* Completion values of an async function.
Returned(v) == [threw |-> FALSE, value |-> v]
Threw(message) == [threw |-> TRUE, value |-> message]

\* Mutant: the trim range is not checked before the transform is run.
TrimPlan_NoRangeCheck(silentParts, durationInSeconds) ==
    IF Len(silentParts) = 0
    THEN [run |-> FALSE, trimStart |-> 0, trimEnd |-> durationInSeconds]
    ELSE LET first == silentParts[1]
             lastSilentPart == silentParts[Len(silentParts)]
             trimStart == IF first.startInSeconds < 10
                          THEN first.endInSeconds ELSE 0
             trimEnd == IF lastSilentPart.endInSeconds >= durationInSeconds - 1
                        THEN lastSilentPart.startInSeconds ELSE durationInSeconds
         IN [run |-> TRUE, trimStart |-> trimStart, trimEnd |-> trimEnd]

\* Mutant: without silence the whole audio is run through the transform.
TrimPlan_NoEarlyReturn(silentParts, durationInSeconds) ==
    IF Len(silentParts) = 0
    THEN [run |-> TRUE, trimStart |-> 0, trimEnd |-> durationInSeconds]
    ELSE LET first == silentParts[1]
             lastSilentPart == silentParts[Len(silentParts)]
             trimStart == IF first.startInSeconds < 10
                          THEN first.endInSeconds ELSE 0
             trimEnd == IF lastSilentPart.endInSeconds >= durationInSeconds - 1
                        THEN lastSilentPart.startInSeconds ELSE durationInSeconds
         IN [run |-> trimStart < trimEnd, trimStart |-> trimStart, trimEnd |-> trimEnd]

\* part_000:398-426: what trimSilence decides from the detection: whether the
\* transform is run, and its range.
TrimPlan(silentParts, durationInSeconds) ==
    IF Len(silentParts) = 0
    THEN [run |-> FALSE, trimStart |-> 0, trimEnd |-> durationInSeconds]
    ELSE LET first == silentParts[1]
             lastSilentPart == silentParts[Len(silentParts)]
             trimStart == IF first.startInSeconds < 10
                          THEN first.endInSeconds ELSE 0
             trimEnd == IF lastSilentPart.endInSeconds >= durationInSeconds - 1
                        THEN lastSilentPart.startInSeconds ELSE durationInSeconds
         IN [run |-> ~(trimStart >= trimEnd), trimStart |-> trimStart,
             trimEnd |-> trimEnd]

\* part_000:445-447: catch -> throw new Error("Failed to trim silence.")
TrimSilenceError == Threw("Failed to trim silence.")

\* Mutant: generateAudio lets trimSilence's exception reach its outer catch.
AfterTrim_Rethrows(outcome, buffer) ==
    IF outcome.threw THEN Threw("Failed to generate audio.") ELSE outcome

\* part_000:98-105: generateAudio's try/catch around trimSilence.
AfterTrim(outcome, buffer) ==
    IF outcome.threw THEN Returned(buffer) ELSE outcome

\* part_000:39-83: generateAudio is called and issues its backend call.
GenerateAudioCall(params) ==
    /\ apc = "idle"
    /\ apc' = "backend"
    /\ audioParams' = Some(params)
    /\ backendCalls' = Append(backendCalls, BackendRequest(params))
    /\ UNCHANGED <<audioBuffer, tmp, detected, ffmpegRuns, trimOutcome, audioResult>>
    /\ UNCHANGED <<bucketName, now, genVars, whVars, unit>>

\* part_000:56-96, 106-109, 381-383: the backend call settles.  On failure
\* generateAudio throws; on success trimSilence starts writing tempFile.
BackendReturn(ok) ==
    /\ apc = "backend"
    /\ IF ok
       THEN /\ audioBuffer' = Some(SynthOutput(backendCalls[1]))
            /\ apc' = "write"
            /\ UNCHANGED audioResult
       ELSE /\ audioResult' = Some(Threw("Failed to generate audio."))
            /\ apc' = "done"
            /\ UNCHANGED audioBuffer
    /\ UNCHANGED <<audioParams, backendCalls, tmp, detected, ffmpegRuns, trimOutcome>>
    /\ UNCHANGED <<bucketName, now, genVars, whVars, unit>>

\* part_000:383-394: fs.writeFile settles (a failed write may leave a partial
\* file); on success getSilentParts is started.
WriteFileReturn(ok, partial) ==
    /\ apc = "write"
    /\ ok => partial
    /\ tmp' = [tmp EXCEPT !.input = partial]
    /\ IF ok
       THEN apc' = "detect" /\ UNCHANGED trimOutcome
       ELSE apc' = "finally" /\ trimOutcome' = Some(TrimSilenceError)
    /\ UNCHANGED <<audioParams, backendCalls, audioBuffer, detected, ffmpegRuns, audioResult>>
    /\ UNCHANGED <<bucketName, now, genVars, whVars, unit>>

\* part_000:389-437: getSilentParts settles.  Without silence, or with an
\* invalid range, tempFile is removed and the original buffer is returned;
\* otherwise ffmpeg is started on the range.
DetectReturn(ok, d) ==
    /\ apc = "detect"
    /\ IF ~ok
       THEN /\ apc' = "finally"
            /\ trimOutcome' = Some(TrimSilenceError)
            /\ UNCHANGED <<tmp, detected, ffmpegRuns>>
       ELSE LET plan == TrimPlan(d.silentParts, d.durationInSeconds) IN
            /\ detected' = Some(d)
            /\ IF plan.run
               THEN /\ ffmpegRuns' = Append(ffmpegRuns,
                                        [start |-> plan.trimStart,
                                         duration |-> plan.trimEnd - plan.trimStart])
                    /\ apc' = "ffmpeg"
                    /\ UNCHANGED <<tmp, trimOutcome>>
               ELSE /\ tmp' = [tmp EXCEPT !.input = FALSE]
                    /\ trimOutcome' = Some(Returned(audioBuffer[1]))
                    /\ apc' = "finally"
                    /\ UNCHANGED ffmpegRuns
    /\ UNCHANGED <<audioParams, backendCalls, audioBuffer, audioResult>>
    /\ UNCHANGED <<bucketName, now, genVars, whVars, unit>>

\* part_000:429-442: ffmpeg settles (a failed run may leave a partial
\* outputFile); on success outputFile is read back.
FfmpegTrimReturn(ok, wrote) ==
    /\ apc = "ffmpeg"
    /\ ok => wrote
    /\ tmp' = [tmp EXCEPT !.output = wrote]
    /\ IF ok
       THEN apc' = "read" /\ UNCHANGED trimOutcome
       ELSE apc' = "finally" /\ trimOutcome' = Some(TrimSilenceError)
    /\ UNCHANGED <<audioParams, backendCalls, audioBuffer, detected, ffmpegRuns, audioResult>>
    /\ UNCHANGED <<bucketName, now, genVars, whVars, unit>>

\* part_000:442-447: fs.readFile(outputFile) settles.
ReadFileReturn(ok) ==
    /\ apc = "read"
    /\ apc' = "finally"
    /\ trimOutcome' = IF ok THEN Some(Returned([audioBuffer[1] EXCEPT !.trimmed = TRUE]))
                      ELSE Some(TrimSilenceError)
    /\ UNCHANGED <<audioParams, backendCalls, audioBuffer, tmp, detected, ffmpegRuns, audioResult>>
    /\ UNCHANGED <<bucketName, now, genVars, whVars, unit>>

\* Mutant: the finally block removes tempFile only.
TrimFinally_InputOnly ==
    /\ apc = "finally"
    /\ tmp' = [tmp EXCEPT !.input = FALSE]
    /\ audioResult' = Some(AfterTrim(trimOutcome[1], audioBuffer[1]))
    /\ apc' = "done"
    /\ UNCHANGED <<audioParams, backendCalls, audioBuffer, detected, ffmpegRuns, trimOutcome>>
    /\ UNCHANGED <<bucketName, now, genVars, whVars, unit>>

\* part_000:448-451 and 98-105: the finally block removes both files
\* (fs.remove ignores a missing file), trimSilence completes, and
\* generateAudio returns what its try/catch makes of that.
TrimFinally ==
    /\ apc = "finally"
    /\ tmp' = [input |-> FALSE, output |-> FALSE]
    /\ audioResult' = Some(AfterTrim(trimOutcome[1], audioBuffer[1]))
    /\ apc' = "done"
    /\ UNCHANGED <<audioParams, backendCalls, audioBuffer, detected, ffmpegRuns, trimOutcome>>
    /\ UNCHANGED <<bucketName, now, genVars, whVars, unit>>

NextAudio ==
    \/ \E params \in AudioParamsSet : GenerateAudioCall(params)
    \/ \E ok \in BOOLEAN : BackendReturn(ok)
    \/ \E ok \in BOOLEAN, partial \in BOOLEAN : WriteFileReturn(ok, partial)
    \/ apc = "detect" /\ \E d \in Detections : DetectReturn(TRUE, d)
    \/ DetectReturn(FALSE, [silentParts |-> <<>>, durationInSeconds |-> 1])
    \/ \E ok \in BOOLEAN, wrote \in BOOLEAN : FfmpegTrimReturn(ok, wrote)
    \/ \E ok \in BOOLEAN : ReadFileReturn(ok)
    \/ TrimFinally

SpecAudio == Init /\ [][NextAudio]_vars


\* ------------------------------------------------- helper calls, one by one
\* transcribeAudio, uploadToS3 and the scene merge, each applied to one input.
MaxWords == 2
MaxWordTime == 2

\* Word lists a transcription backend may report, with any timings on the
\* grid (undefined: no word list at all).
BackendWord(s, e) == [text |-> "w", start |-> s, end |-> e, confidence |-> 1]
BackendWords == { BackendWord(s, e) : s \in 0..MaxWordTime, e \in 0..MaxWordTime }
Transcripts ==
    {Undefined} \cup { Some(l) : l \in UNION { [1..n -> BackendWords] : n \in 0..MaxWords } }

\* Language codes a request may carry (lang_code is not validated, so it may
\* be absent or empty; "he" is a code langMap does not list).
LangCodes == {Undefined, Some(""), Some("en"), Some("he")}

\* part_000:454-479: langMap's keys, and getLanguageValue.
LangMapKeys ==
    {"en", "en_au", "en_uk", "en_us", "es", "fr", "de", "it", "pt", "nl", "hi",
     "ja", "zh", "fi", "ko", "pl", "ru", "tr", "uk", "vi"}
getLanguageValue(langCode) ==
    IF langCode # Undefined /\ langCode[1] \in LangMapKeys THEN "best" ELSE "nano"

\* part_000:250-255: the parameters handed to client.transcripts.transcribe
\* (language_detection is commented out, hence never set).
TranscribeRequest(audioUrl, lang_code) ==
    [audio_url |-> Some(audioUrl), language_code |-> lang_code,
     speech_model |-> Some(getLanguageValue(lang_code)),
     language_detection |-> Undefined]

\* part_000:241-270 and index.ts:208, 260: transcribeAudio on a transcript,
\* and the caption list the caller puts in the render job.
TranscribeAudioCall(ok, words, lang_code) ==
    /\ unit.fn = "none"
    /\ ~ok => words = Undefined
    /\ unit' = [fn |-> "transcribeAudio", ok |-> ok, words |-> words,
                lang_code |-> lang_code,
                request |-> TranscribeRequest("audio", lang_code),
                result |-> IF ok THEN Returned(CaptionsOf(words))
                           ELSE Threw("Error Transcribing"),
                placed |-> IF ok THEN OrEmptyList(CaptionsOf(words)) ELSE <<>>]
    /\ UNCHANGED <<bucketName, now, genVars, whVars, auVars>>

\* part_000:117-156: uploadToS3 for a bucket setting and an outcome of
\* s3.send: the storage calls made and how the function completes.  The
\* configuration error is thrown inside the try block, so the catch block
\* replaces it as it replaces a transport error.
ConfigError == Threw("AWS_BUCKET_NAME is not defined in environment variables.")
UploadError == Threw("Failed to upload audio to S3.")
CatchUpload(error) == UploadError
uploadToS3(bucket, key, sent) ==
    IF bucket = "" THEN [s3Calls |-> 0, result |-> CatchUpload(ConfigError)]
    ELSE IF ~sent THEN [s3Calls |-> 1, result |-> CatchUpload(Threw("transport"))]
    ELSE [s3Calls |-> 1, result |-> Returned([bucket |-> bucket, key |-> key])]

UploadToS3Call(id, sent, elapsed) ==
    /\ unit.fn = "none"
    /\ now' = IF bucketName = "" THEN now ELSE now + elapsed
    /\ bucketName = "" => elapsed = 0
    /\ (bucketName # "" /\ now = 0) => elapsed = 1
    /\ unit' = [fn |-> "uploadToS3", bucket |-> bucketName, sent |-> sent,
                out |-> uploadToS3(bucketName, AudioKey(id, now'), sent)]
    /\ UNCHANGED <<bucketName, genVars, whVars, auVars>>

\* index.ts:257-258: scene.tts_enabled || true, scene.random_sequence || true
OrTrue(flag) == IF flag # Undefined /\ flag[1] THEN flag[1] ELSE TRUE
Flags == {Undefined, Some(TRUE), Some(FALSE)}

SceneMergeCall(tts, random) ==
    /\ unit.fn = "none"
    /\ unit' = [fn |-> "merge",
                scene |-> [tts_enabled |-> tts, random_sequence |-> random],
                merged |-> [tts_enabled |-> OrTrue(tts),
                            random_sequence |-> OrTrue(random)]]
    /\ UNCHANGED <<bucketName, now, genVars, whVars, auVars>>

\* part_000:307-311: the output-encoding parameters generateVideo submits.
\* `||` replaces every falsy value (undefined, 0, "") by the default.
DefaultCrf == 18
DefaultScale == 1
NumberOr(v, d) == IF v # Undefined /\ v[1] # 0 THEN v[1] ELSE d
StringOr(v, d) == IF TruthyString(v) THEN v[1] ELSE d
EncodingOptions(requestBody) ==
    [codec |-> StringOr(requestBody.codec, "h264"),
     crf |-> NumberOr(requestBody.crf, DefaultCrf),
     imageFormat |-> "jpeg",
     scale |-> NumberOr(requestBody.scale, DefaultScale),
     jpegQuality |-> 80]

\* part_002:53-58: output configurations a request may carry (crf over its
\* documented range 0..51, sampled at the ends and inside).
CrfValues == {Undefined, Some(0), Some(23), Some(51)}
ScaleValues == {Undefined, Some(1), Some(2)}
CodecValues == {Undefined, Some("h264"), Some("vp9")}

\* part_000:277-314: generateVideo on a request's output configuration.
GenerateVideoCall(crf, scale, codec) ==
    /\ unit.fn = "none"
    /\ LET requestBody == [crf |-> crf, scale |-> scale, codec |-> codec] IN
       unit' = [fn |-> "generateVideo", requestBody |-> requestBody,
                submitted |-> EncodingOptions(requestBody)]
    /\ UNCHANGED <<bucketName, now, genVars, whVars, auVars>>

NextUnits ==
    \/ \E words \in Transcripts, lang_code \in LangCodes :
          TranscribeAudioCall(TRUE, words, lang_code)
    \/ \E lang_code \in LangCodes : TranscribeAudioCall(FALSE, Undefined, lang_code)
    \/ \E id \in {"v1", "v2"}, sent \in BOOLEAN, elapsed \in {0, 1} :
          UploadToS3Call(id, sent, elapsed)
    \/ \E tts \in Flags, random \in Flags : SceneMergeCall(tts, random)
    \/ \E crf \in CrfValues, scale \in ScaleValues, codec \in CodecValues :
          GenerateVideoCall(crf, scale, codec)

SpecUnits == Init /\ [][NextUnits]_vars

\* ================================================================ claims
\* Shorthands over the request being handled.
Body == req[1]
Received == req # Undefined
Valid == Received /\ ~MissingRequired(Body)
PerSceneRequest == Valid /\ Body.audio_text = Undefined
WholeVideoRequest == Received /\ Body.audio_text = Some(WholeText)
Clips == Body.clips[1]
NarratedScenes == {i \in 1..Len(Clips) : Clips[i].audio_text = Some(SceneText(i))}
InFlight(i) == pipe[i].pc \in {"synth", "trim", "upload", "transcribe"}
NoCalls(i) == synthCalls[i] = <<>> /\ uploadCalls[i] = <<>> /\ transCalls[i] = <<>>
\* The URL object storage returned for the (single) upload of pipeline i.
UploadedUrl(i) == [bucket |-> bucketName, key |-> uploadCalls[i][1].key]

\* C1: in per-scene mode, once the pipeline of any scene has failed, the
\* render dispatcher has not been and is never called for the request, and
\* the request's response is the 500 failure response.
C1_AllOrNothing ==
    (PerSceneRequest /\ \E i \in SceneIds : pipe[i].pc = "failed")
        => /\ renderCalls = <<>>
           /\ submission = "none"
           /\ responses = <<InternalError>>

\* C1 witness: two narrated scenes, one failed, the other ran to its end.
C1_Witness ==
    /\ PerSceneRequest
    /\ \E i, j \in SceneIds : pipe[i].pc = "failed" /\ pipe[j].pc = "done"
    /\ responses = <<InternalError>>

\* C2: a request in which id, clips or elevenlabs_voice_id is missing gets
\* 400 "Missing required fields in request body." and causes no external call.
C2_MissingFieldsRejected ==
    (Received /\ (\/ Body.id = Undefined
                  \/ Body.clips = Undefined
                  \/ Body.elevenlabs_voice_id = Undefined))
        => /\ responses = <<[status |-> 400,
                             message |-> "Missing required fields in request body."]>>
           /\ \A i \in Pipes : NoCalls(i)
           /\ renderCalls = <<>>
           /\ progressCalls = 0

\* C2 witness: only the voice id is missing; the request otherwise has
\* narrated scenes.
C2_Witness ==
    /\ Received
    /\ Body.elevenlabs_voice_id = Undefined
    /\ Body.id = Some("v1")
    /\ Body.clips # Undefined
    /\ NarratedScenes # {}
    /\ responses # <<>>

\* C3: a valid per-scene request in which no external call failed, once
\* answered: one synthesis call per narrated scene with that scene's text, one
\* upload, one transcription with the URL that upload returned, no call for
\* the other scenes, one render job whose narrated scenes carry their own
\* upload's URL, and the response 200 "Video Triggered Successfully".
C3_HappyPath ==
    (/\ PerSceneRequest
     /\ hpc = "done"
     /\ \A i \in Pipes : pipe[i].pc # "failed"
     /\ submission # "failed")
        => /\ \A i \in NarratedScenes :
                 /\ Len(synthCalls[i]) = 1
                 /\ synthCalls[i][1].text = SceneText(i)
                 /\ Len(uploadCalls[i]) = 1
                 /\ transCalls[i] = <<UploadedUrl(i)>>
           /\ \A i \in Pipes \ NarratedScenes : NoCalls(i)
           /\ Len(renderCalls) = 1
           /\ Len(renderCalls[1].scenes) = Len(Clips)
           /\ \A i \in NarratedScenes :
                 renderCalls[1].scenes[i].audio_url = Some(UploadedUrl(i))
           /\ responses = <<[status |-> 200, message |-> "Video Triggered Successfully"]>>

\* C3 witness: two narrated scenes, answered with the success message.
C3_Witness ==
    /\ PerSceneRequest
    /\ hpc = "done"
    /\ Cardinality(NarratedScenes) = 2
    /\ responses = <<Triggered>>

\* C4 as claimed: whenever the render job has been dispatched or a response
\* has been sent, no scene pipeline of the request is in flight.
C4_NothingInFlightAfterResponse ==
    (renderCalls # <<>> \/ responses # <<>>) => \A i \in Pipes : ~InFlight(i)

\* C4 amended: no pipeline is in flight once the render job has been
\* dispatched or a response other than the 500 has been sent; the 500 is
\* sent in the very step in which the first pipeline fails, whatever the
\* other pipelines are doing.
C4_Barrier ==
    /\ (renderCalls # <<>> \/ (responses # <<>> /\ responses # <<InternalError>>))
          => \A i \in Pipes : ~InFlight(i)
    /\ (\E i \in Pipes : pipe[i].pc = "failed") => responses = <<InternalError>>

\* C4 witness: the render job was dispatched after two pipelines completed.
C4_Witness ==
    /\ PerSceneRequest
    /\ renderCalls # <<>>
    /\ Cardinality({i \in SceneIds : pipe[i].pc = "done"}) = 2

\* C5: for every pipeline, no upload has been started while its synthesis
\* (with the trimming) is running, no transcription has been started while its
\* synthesis or its upload is running, each step is called at most once, and
\* the transcription is called with the URL the pipeline's own upload returned.
C5_StepsSequential ==
    \A i \in Pipes :
        /\ pipe[i].pc \in {"none", "synth", "trim"}
              => uploadCalls[i] = <<>> /\ transCalls[i] = <<>>
        /\ pipe[i].pc = "upload" => transCalls[i] = <<>>
        /\ uploadCalls[i] # <<>> => Len(synthCalls[i]) = 1
        /\ Len(uploadCalls[i]) <= 1
        /\ transCalls[i] # <<>> => transCalls[i] = <<UploadedUrl(i)>>

\* C5 witness: one scene is transcribing while another is still uploading.
C5_Witness ==
    \E i, j \in SceneIds :
        /\ pipe[i].pc = "transcribe"
        /\ transCalls[i] # <<>>
        /\ pipe[j].pc = "upload"

\* C6: for a request with a top-level audio_text no synthesis, upload or
\* transcription call is ever made for an individual scene; synthesis, upload
\* and transcription are called at most once, synthesis with the top-level
\* text, and each exactly once when the narration has been resolved (the
\* render job was dispatched).
C6_WholeVideoExclusive ==
    WholeVideoRequest
        => /\ \A i \in SceneIds : NoCalls(i)
           /\ Len(synthCalls[0]) <= 1 /\ Len(uploadCalls[0]) <= 1 /\ Len(transCalls[0]) <= 1
           /\ \A k \in 1..Len(synthCalls[0]) : synthCalls[0][k].text = WholeText
           /\ renderCalls # <<>>
                 => Len(synthCalls[0]) = 1 /\ Len(uploadCalls[0]) = 1 /\ Len(transCalls[0]) = 1

\* C6 witness: a dispatched whole-video request whose scenes carry audio_text
\* too.
C6_Witness ==
    /\ WholeVideoRequest
    /\ renderCalls # <<>>
    /\ Body.clips # Undefined
    /\ \E i \in 1..Len(Clips) : Clips[i].audio_text = Some(SceneText(i))

\* C7: when the render submission failed, the request is answered 200 with
\* "There is some error generation video, try again later...": never a 500,
\* never "Video Triggered Successfully".
C7_DispatchFailureIsSoft ==
    submission = "failed"
        => responses = <<[status |-> 200,
                          message |-> "There is some error generation video, try again later..."]>>

\* C7 witness: the narration of a scene was resolved, then the submission
\* failed.
C7_Witness ==
    /\ submission = "failed"
    /\ \E i \in SceneIds : pipe[i].pc = "done"
    /\ hpc = "done"

C9_AlwaysAcknowledged ==
    \A w \in WebhookCalls :
        wpc[w] \in {"done", "rejected"}
            => Len(wresponses[w]) = 1 /\ wresponses[w][1].status = 200

\* C10: for a non-error notification the handler has finished with, either
\* the re-publish path went through, or a synthesized error notification
\* reached the downstream endpoint and the webhook caller got its 200.
RepublishDone(w) ==
    /\ Len(postsDelivered[w]) = 1
    /\ postsDelivered[w][1].message = Undefined
    /\ wresponses[w] = <<Acknowledge("Video processed and forwarded")>>

C10_FailureForwarded ==
    \A w \in WebhookCalls :
        (/\ wpc[w] \in {"done", "rejected"}
         /\ wpayload[w][1].type # Some("error")
         /\ ~RepublishDone(w))
            => /\ \E k \in 1..Len(postsDelivered[w]) :
                     postsDelivered[w][k].type = Some("error")
               /\ Len(wresponses[w]) = 1
               /\ wresponses[w][1].status = 200

\* C11: for an error notification the handler has finished with, exactly one
\* downstream POST was made, its body is the received payload unchanged, the
\* uploader was never called, and the caller got an HTTP 200.
WebhookFinished(w) == wpc[w] \in {"done", "rejected"}

C11_ErrorPassthrough ==
    \A w \in WebhookCalls :
        (WebhookFinished(w) /\ wpayload[w][1].type = Some("error"))
            => /\ postsSent[w] = <<wpayload[w][1]>>
               /\ videoCalls[w] = <<>>
               /\ putCalls[w] = <<>>
               /\ Len(wresponses[w]) = 1
               /\ wresponses[w][1].status = 200

\* C12 as stated: for a non-error notification the handler has finished
\* with, exactly one re-upload call and exactly one downstream POST were
\* made, and the posted body is the notification with outputUrl replaced by
\* the URL of the re-upload.
PutUrl(w) == FileUrl(putCalls[w][1].key)

C12_OneUploadOnePost ==
    \A w \in WebhookCalls :
        (WebhookFinished(w) /\ wpayload[w][1].type # Some("error"))
            => /\ Len(videoCalls[w]) = 1
               /\ Len(putCalls[w]) = 1
               /\ Len(postsSent[w]) = 1
               /\ postsSent[w][1] =
                      [wpayload[w][1] EXCEPT !.outputUrl = Some(PutUrl(w))]

\* C12: a non-error notification gets exactly one uploader call; when the
\* handler answered "Video processed and forwarded" there was exactly one
\* object written and exactly one downstream POST, whose body is the
\* notification with only outputUrl replaced by the URL of that object; and
\* whatever failed, the only other body ever posted is the synthesized error.
C12_RepublishOnSuccess ==
    \A w \in WebhookCalls :
        (wpayload[w] # Undefined /\ wpayload[w][1].type # Some("error"))
            => /\ Len(videoCalls[w]) = 1
               /\ videoCalls[w][1].videoUrl = wpayload[w][1].outputUrl
               /\ Len(putCalls[w]) <= 1
               /\ \A k \in 1..Len(postsSent[w]) :
                     \/ postsSent[w][k] = SynthesizedError
                     \/ /\ k = 1
                        /\ Len(putCalls[w]) = 1
                        /\ postsSent[w][k] =
                               [wpayload[w][1] EXCEPT !.outputUrl = Some(PutUrl(w))]
               /\ wresponses[w] = <<Acknowledge("Video processed and forwarded")>>
                     => /\ Len(putCalls[w]) = 1
                        /\ Len(postsSent[w]) = 1
                        /\ postsSent[w][1] # SynthesizedError
                        /\ postsDelivered[w] = postsSent[w]

\* A notification with custom data was re-published and acknowledged.
C12_Witness ==
    \E w \in WebhookCalls :
        /\ wresponses[w] = <<Acknowledge("Video processed and forwarded")>>
        /\ wpayload[w][1].customData # Undefined
        /\ postsDelivered[w] = <<Republished(wpayload[w][1], PutUrl(w))>>

\* C13: no two upload calls of a request use the same object key, so no two
\* scenes of a dispatched job carry the same audio URL.
C13_KeysDistinct ==
    /\ \A i, j \in Pipes :
          (i # j /\ uploadCalls[i] # <<>> /\ uploadCalls[j] # <<>>)
              => uploadCalls[i][1].key # uploadCalls[j][1].key
    /\ \A k \in 1..Len(renderCalls) :
          \A i, j \in 1..Len(renderCalls[k].scenes) :
              (i # j /\ i \in NarratedScenes /\ j \in NarratedScenes)
                  => renderCalls[k].scenes[i].audio_url
                         # renderCalls[k].scenes[j].audio_url

\* C14: two webhook calls that are inside uploadVideoToS3 at the same time
\* never work on the same temporary files, and the object a call stores is
\* made from the video that call downloaded.
InUploader(w) == wpc[w] \in {"download", "ffmpeg", "s3"}

C14_NoSharedTempFile ==
    /\ \A w1, w2 \in WebhookCalls :
          (w1 # w2 /\ InUploader(w1) /\ InUploader(w2))
              => /\ TempInput(wkey[w1][1].id) # TempInput(wkey[w2][1].id)
                 /\ TempOutput(wkey[w1][1].id) # TempOutput(wkey[w2][1].id)
    /\ \A w \in WebhookCalls :
          \A k \in 1..Len(putCalls[w]) : putCalls[w][k].body.video = w

\* C15: a request whose clips list is empty is answered with the 400 of the
\* validation and causes no synthesis, upload, transcription or render call.
EmptyClipsRequest == Received /\ Body.clips = Some(<<>>)

C15_EmptyClipsRejected ==
    EmptyClipsRequest
        => /\ \A i \in Pipes : NoCalls(i)
           /\ renderCalls = <<>>
           /\ responses = <<MissingFields>>

\* C16: every dispatched render job registers its webhook with custom data
\* whose video_id is the id of the request, so the id the webhook handler
\* derives from the notification of that job is the id of the request.
JobNotification(job) == Notification(Some("success"), Some("render/out.mp4"), job.customData)

C16_WebhookCarriesRequestId ==
    \A k \in 1..Len(renderCalls) :
        /\ renderCalls[k].customData = Some([video_id |-> Body.id])
        /\ WebhookVideoId(JobNotification(renderCalls[k])) = Body.id[1]
        /\ renderCalls[k].id = Body.id[1]

\* The render job of request "v1" is done and its webhook has been called.
C16_Witness ==
    /\ webhookSent
    /\ Len(renderCalls) = 1
    /\ WebhookVideoId(JobNotification(renderCalls[1])) = "v1"

\* C17: in whole-video mode a dispatched job has, at the request level, the
\* URL of the uploaded narration and the captions of its transcription, and
\* each of its scenes has audio_url = null and captions = null.
C17_WholeVideoJob ==
    WholeVideoRequest
        => \A k \in 1..Len(renderCalls) :
              LET job == renderCalls[k] IN
              /\ job.audio_url = Some(UploadedUrl(0))
              /\ transCalls[0] = <<UploadedUrl(0)>>
              /\ job.captions = Some(OrEmptyList(pipe[0].captions))
              /\ Len(job.scenes) = Len(Clips)
              /\ \A i \in 1..Len(job.scenes) :
                    /\ job.scenes[i].audio_url = JsNull
                    /\ job.scenes[i].captions = JsNull

\* A whole-video request with two scenes was dispatched with the words the
\* transcription reported.
C17_Witness ==
    /\ WholeVideoRequest
    /\ Len(renderCalls) = 1
    /\ Len(renderCalls[1].scenes) = 2
    /\ renderCalls[1].captions = Some(<<Word(0, 1)>>)

\* C18 as stated: a dispatched job has no audio_text at the request level,
\* and none in a scene whose narration was resolved.
C18_TextNotRetained ==
    \A k \in 1..Len(renderCalls) :
        LET job == renderCalls[k] IN
        /\ job.audio_text = Undefined
        /\ \A i \in 1..Len(job.scenes) :
              job.scenes[i].audio_url # Undefined
                  => job.scenes[i].audio_text = Undefined

\* C18: a scene of a dispatched job whose narration was resolved carries the
\* uploaded audio_url and the captions together with its original
\* audio_text, and the job still carries the request's audio_text and clips.
C18_TextRetained ==
    \A k \in 1..Len(renderCalls) :
        LET job == renderCalls[k] IN
        /\ job.audio_text = Body.audio_text
        /\ job.clips = Clips
        /\ \A i \in 1..Len(job.scenes) :
              /\ job.scenes[i].audio_text = Clips[i].audio_text
              /\ (PerSceneRequest /\ i \in NarratedScenes)
                    => /\ job.scenes[i].audio_url = Some(UploadedUrl(i))
                       /\ job.scenes[i].captions = Some(OrEmptyList(pipe[i].captions))

\* A job was dispatched with a scene that has both its uploaded audio and its
\* narration text.
C18_Witness ==
    /\ PerSceneRequest
    /\ Len(renderCalls) = 1
    /\ \E i \in NarratedScenes :
          /\ renderCalls[1].scenes[i].audio_url = Some(UploadedUrl(i))
          /\ renderCalls[1].scenes[i].audio_text = Some(SceneText(i))

BackendBytes(i) == SynthOutput(synthCalls[i][1])

C20_TrimFailureAbsorbed ==
    \A i \in Pipes :
        /\ pipe[i].pc = "synth"
              => /\ ENABLED (SynthReturn(i, FALSE) /\ pipe'[i].pc = "failed")
                 /\ ENABLED (/\ SynthReturn(i, TRUE)
                             /\ pipe'[i].pc = "trim"
                             /\ pipe'[i].audio = Some(BackendBytes(i)))
        /\ (pipe[i].pc = "trim" /\ bucketName # "")
              => /\ \A outcome \in {"trimmed", "original", "threw"} :
                       ENABLED (/\ TrimReturn(i, outcome, 1)
                                /\ pipe'[i].pc = "upload"
                                /\ Len(uploadCalls'[i]) = 1)
                 /\ ENABLED (/\ TrimReturn(i, "threw", 1)
                             /\ uploadCalls'[i][1].body = BackendBytes(i)
                             /\ responses' = responses)
        /\ pipe[i].pc = "upload"
              => ENABLED (/\ UploadReturn(i, TRUE)
                          /\ pipe'[i].pc = "transcribe"
                          /\ transCalls'[i] = <<UploadedUrl(i)>>)

\* Untrimmed backend bytes have been uploaded and their transcription has
\* been submitted.
C20_Witness ==
    \E i \in Pipes :
        /\ pipe[i].pc = "transcribe"
        /\ uploadCalls[i] = <<[key |-> pipe[i].key[1], body |-> BackendBytes(i)]>>
        /\ ~uploadCalls[i][1].body.trimmed
        /\ transCalls[i] = <<UploadedUrl(i)>>

\* C21 as stated: trimSilence never completes with an exception.
C21_TrimmerNeverThrows ==
    trimOutcome # Undefined => ~trimOutcome[1].threw

\* C21: when silence detection or the trimming transform fails, trimSilence
\* itself throws "Failed to trim silence."; generateAudio, its caller,
\* catches that and returns exactly the bytes the backend gave it.
C21_FailureAbsorbedByCaller ==
    /\ apc = "detect"
          => ENABLED (/\ DetectReturn(FALSE, [silentParts |-> <<>>, durationInSeconds |-> 1])
                      /\ trimOutcome' = Some(TrimSilenceError))
    /\ apc = "ffmpeg"
          => \A wrote \in BOOLEAN :
                ENABLED (/\ FfmpegTrimReturn(FALSE, wrote)
                         /\ trimOutcome' = Some(TrimSilenceError))
    /\ (apc = "finally" /\ trimOutcome[1].threw)
          => ENABLED (TrimFinally /\ audioResult' = Some(Returned(audioBuffer[1])))
    /\ (apc = "done" /\ trimOutcome # Undefined /\ trimOutcome[1].threw)
          => /\ audioResult = Some(Returned(audioBuffer[1]))
             /\ audioBuffer = Some(SynthOutput(backendCalls[1]))

\* The trimming transform failed, trimSilence threw, and generateAudio
\* returned the untrimmed bytes.
C21_Witness ==
    /\ apc = "done"
    /\ Len(ffmpegRuns) = 1
    /\ trimOutcome = Some(TrimSilenceError)
    /\ audioResult = Some(Returned(audioBuffer[1]))

\* C22: generateAudio makes exactly one backend call, chosen by lang_code
\* alone: the secondary backend with its fixed voice and no settings for
\* "he", the primary backend with the caller's voice id and settings for any
\* other code; and bytes are returned only after trimSilence has run on them.
C22_BackendByLanguage ==
    audioParams # Undefined
        => LET params == audioParams[1]
               call == backendCalls[1]
           IN /\ Len(backendCalls) = 1
              /\ call.text = params.audio_text
              /\ params.lang_code = "he"
                    => /\ call.backend = "secondary"
                       /\ call.voice = "coral"
                       /\ call.settings = Undefined
              /\ params.lang_code # "he"
                    => /\ call.backend = "primary"
                       /\ call.voice = params.elevenlabs_voice_id
                       /\ call.settings # Undefined
                       /\ call.settings[1].stability = params.elevenlabs_stability
                       /\ params.elevenlabs_speed # Undefined
                             => call.settings[1].speed = params.elevenlabs_speed[1]
              /\ (audioResult # Undefined /\ ~audioResult[1].threw)
                    => /\ trimOutcome # Undefined
                       /\ audioResult[1].value.backend = call.backend

\* A Hebrew text was synthesized by the secondary backend and returned trimmed.
C22_Witness ==
    /\ apc = "done"
    /\ audioParams[1].lang_code = "he"
    /\ backendCalls[1].backend = "secondary"
    /\ audioBuffer # Undefined
    /\ audioResult = Some(Returned([audioBuffer[1] EXCEPT !.trimmed = TRUE]))

\* C23: when no webhook call is inside uploadVideoToS3, none of its temporary
\* files exists: every call that left it, by returning or by throwing, has
\* deleted the files it created.
C23_TempFilesReleased ==
    (\A w \in WebhookCalls : ~InUploader(w))
        => \A f \in TempFiles : fs[f] = Undefined

\* C24: once generateAudio has completed, neither of trimSilence's temporary
\* files exists, whichever way trimSilence ended; and the output file exists
\* only between the transform and the finally block.
C24_TrimTempFilesRemoved ==
    /\ apc = "done" => tmp = [input |-> FALSE, output |-> FALSE]
    /\ apc \in {"idle", "backend", "write", "detect", "ffmpeg"} => ~tmp.output
    /\ apc = "finally" => ENABLED (TrimFinally /\ ~tmp'.input /\ ~tmp'.output)

\* A trim that ran the transform has completed and both files are gone.
C24_Witness ==
    /\ apc = "done"
    /\ Len(ffmpegRuns) = 1
    /\ ~trimOutcome[1].threw
    /\ trimOutcome[1].value.trimmed
    /\ tmp = [input |-> FALSE, output |-> FALSE]

\* C25: the trimming transform is started only on a range with
\* trimStart < trimEnd, and that range is the computed one; when the computed
\* trimStart >= trimEnd, as for one silent interval that covers the whole
\* audio, no transform is started and trimSilence returns the original bytes.
C25_TrimRangeValid ==
    /\ \A k \in 1..Len(ffmpegRuns) :
          ffmpegRuns[k].start >= 0 /\ ffmpegRuns[k].duration > 0
    /\ detected # Undefined
          => LET d == detected[1]
                 plan == TrimPlan(d.silentParts, d.durationInSeconds)
             IN /\ ffmpegRuns # <<>>
                      => /\ Len(d.silentParts) > 0
                         /\ plan.trimStart < plan.trimEnd
                         /\ ffmpegRuns = <<[start |-> plan.trimStart,
                                            duration |-> plan.trimEnd - plan.trimStart]>>
                /\ (Len(d.silentParts) > 0 /\ plan.trimStart >= plan.trimEnd)
                      => /\ ffmpegRuns = <<>>
                         /\ trimOutcome = Some(Returned(audioBuffer[1]))
                /\ d.silentParts = <<Interval(0, d.durationInSeconds)>>
                      => /\ ffmpegRuns = <<>>
                         /\ trimOutcome = Some(Returned(audioBuffer[1]))

\* One silent interval covered the whole audio and the original bytes came
\* back.
C25_Witness ==
    /\ apc = "done"
    /\ detected # Undefined
    /\ detected[1].silentParts = <<Interval(0, detected[1].durationInSeconds)>>
    /\ ffmpegRuns = <<>>
    /\ audioResult = Some(Returned(audioBuffer[1]))

\* C26: when getSilentParts reports no interval, no transform is started and
\* trimSilence returns the very buffer it was given, so generateAudio returns
\* the backend's bytes unchanged.
C26_NoSilenceIdentity ==
    (detected # Undefined /\ detected[1].silentParts = <<>>)
        => /\ ffmpegRuns = <<>>
           /\ apc \in {"finally", "done"}
           /\ trimOutcome = Some(Returned(audioBuffer[1]))
           /\ ~tmp.input
           /\ apc = "done" => audioResult = Some(Returned(SynthOutput(backendCalls[1])))

\* generateAudio has returned after a detection that found no silence.
C26_Witness ==
    /\ apc = "done"
    /\ detected # Undefined
    /\ detected[1].silentParts = <<>>
    /\ audioResult = Some(Returned(audioBuffer[1]))
    /\ ~audioResult[1].value.trimmed

\* C27: when the backend's transcript has no words, the word list being
\* missing or empty, transcribeAudio returns null.
C27_ZeroWordsGiveNull ==
    (/\ unit.fn = "transcribeAudio"
     /\ unit.ok
     /\ (unit.words = Undefined \/ Len(unit.words[1]) = 0))
        => unit.result = Returned(JsNull)

\* C28: every caption transcribeAudio produced and the caller placed in the
\* render job has end > start >= 0.
C28_CaptionTimingsValid ==
    (unit.fn = "transcribeAudio" /\ unit.ok)
        => \A k \in 1..Len(unit.placed) :
              /\ unit.placed[k].end > unit.placed[k].start
              /\ unit.placed[k].start >= 0

\* C29: uploadToS3 with no bucket configured makes no storage call and throws
\* an error that differs from the one it throws when s3.send fails.
C29_ErrorsDistinguishable ==
    (unit.fn = "uploadToS3" /\ unit.bucket = "")
        => /\ unit.out.s3Calls = 0
           /\ unit.out.result.threw
           /\ unit.out.result # uploadToS3("bucket", AudioKey("v1", 1), FALSE).result

\* C30: the merged scene keeps a tts_enabled / random_sequence flag that the
\* input scene sets, to true or to false, and has true where it is unset.
Defaulted(flag) == IF flag = Undefined THEN TRUE ELSE flag[1]

C30_FlagsDefaulted ==
    unit.fn = "merge"
        => /\ unit.merged.tts_enabled = Defaulted(unit.scene.tts_enabled)
           /\ unit.merged.random_sequence = Defaulted(unit.scene.random_sequence)

\* C31: in per-scene mode a scene without narration text (absent or empty)
\* never causes a synthesis, upload or transcription call, and its entry in
\* the scene list of a dispatched job is the clip as received: same
\* audio_text, and no audio_url or captions field added.
C31_SkippedSceneUnchanged ==
    PerSceneRequest
        => \A i \in 1..Len(Clips) :
              i \notin NarratedScenes
                  => /\ NoCalls(i)
                     /\ pipe[i].pc \notin {"synth", "trim", "upload", "transcribe", "failed"}
                     /\ \A k \in 1..Len(renderCalls) :
                           LET scene == renderCalls[k].scenes[i] IN
                           /\ scene.audio_text = Clips[i].audio_text
                           /\ scene.audio_url = Undefined
                           /\ scene.captions = Undefined

\* A per-scene job was dispatched whose first scene had an empty narration
\* text and whose second scene was narrated.
C31_Witness ==
    /\ PerSceneRequest
    /\ Len(renderCalls) = 1
    /\ Len(Clips) = 2
    /\ Clips[1].audio_text = Some(EmptyText)
    /\ 2 \in NarratedScenes
    /\ renderCalls[1].scenes[1].audio_text = Some(EmptyText)
    /\ renderCalls[1].scenes[2].audio_url # Undefined

\* C32 as stated: when the first detected silent interval starts later than
\* time 0, a transform that is started has trim start 0, so nothing before
\* that interval is cut (times in tenths of a second).
C32_StartMovedOnlyAtZero ==
    (detected # Undefined /\ ffmpegRuns # <<>>)
        => LET first == detected[1].silentParts[1] IN
           first.startInSeconds > 0 => ffmpegRuns[1].start = 0

\* C33 as stated: a transcription request made without a meaningful language
\* code (absent or empty) has language detection enabled and carries neither
\* a language code nor a quality tier; one made with a code carries that code
\* and a quality tier.
C33_DetectionWithoutCode ==
    unit.fn = "transcribeAudio"
        => IF TruthyString(unit.lang_code)
           THEN /\ unit.request.language_code = unit.lang_code
                /\ unit.request.speech_model # Undefined
           ELSE /\ unit.request.language_detection = Some(TRUE)
                /\ unit.request.language_code = Undefined
                /\ unit.request.speech_model = Undefined

\* C34: for a notification that is not an error, every call of the video
\* uploader and every object it stores is made under
\* notification.customData.video_id when that is present and under
\* "default_id" when customData or video_id is absent: the id is the first
\* component of the object key.
C34_ReuploadUnderVideoId ==
    \A w \in WebhookCalls :
        (wpayload[w] # Undefined /\ wpayload[w][1].type # Some("error"))
            => LET customData == wpayload[w][1].customData
                   expected == IF customData = Undefined THEN "default_id"
                               ELSE IF customData[1].video_id = Undefined
                                    THEN "default_id"
                                    ELSE customData[1].video_id[1]
               IN /\ Len(videoCalls[w]) = 1
                  /\ videoCalls[w][1].id = expected
                  /\ wkey[w] # Undefined => wkey[w][1].id = expected
                  /\ \A k \in 1..Len(putCalls[w]) :
                        /\ putCalls[w][k].key.id = expected
                        /\ putCalls[w][k].key.ext = "mp4"

\* One notification with video_id "v1" and one whose customData has no
\* video_id were both stored, under "v1" and under "default_id".
C34_Witness ==
    /\ wpayload[1] # Undefined /\ wpayload[2] # Undefined
    /\ wpayload[1][1].customData = Some([video_id |-> Some("v1")])
    /\ wpayload[2][1].customData = Some([video_id |-> Undefined])
    /\ Len(putCalls[1]) = 1 /\ putCalls[1][1].key.id = "v1"
    /\ Len(putCalls[2]) = 1 /\ putCalls[2][1].key.id = "default_id"

\* C35 as stated: generateVideo submits the request's crf, scale and codec
\* whenever the request supplies them (crf 0 included), and the defaults
\* crf 18, scale 1 and codec "h264" only for a parameter that is not supplied.
C35_SuppliedEncodingSubmitted ==
    unit.fn = "generateVideo"
        => LET requestBody == unit.requestBody
               submitted == unit.submitted
           IN /\ submitted.crf = IF requestBody.crf # Undefined
                                 THEN requestBody.crf[1] ELSE 18
              /\ submitted.scale = IF requestBody.scale # Undefined
                                   THEN requestBody.scale[1] ELSE 1
              /\ submitted.codec = IF requestBody.codec # Undefined
                                   THEN requestBody.codec[1] ELSE "h264"

\* C36: the scene list of a dispatched job is as long as the request's clips
\* and in their order (scene i has clip i's narration text), and in per-scene
\* mode a narrated scene i carries the URL that pipeline i's own upload was
\* given and the captions of pipeline i's own transcription of that URL,
\* whatever order the pipelines ran in.
C36_ScenesInClipOrder ==
    \A k \in 1..Len(renderCalls) :
        LET scenes == renderCalls[k].scenes IN
        /\ Len(scenes) = Len(Clips)
        /\ \A i \in 1..Len(Clips) :
              /\ scenes[i].audio_text = Clips[i].audio_text
              /\ (PerSceneRequest /\ i \in NarratedScenes)
                    => /\ Len(synthCalls[i]) = 1
                       /\ synthCalls[i][1].text = SceneText(i)
                       /\ Len(uploadCalls[i]) = 1
                       /\ scenes[i].audio_url = Some(FileUrl(uploadCalls[i][1].key))
                       /\ transCalls[i] = <<FileUrl(uploadCalls[i][1].key)>>
                       /\ pipe[i].pc = "done"
                       /\ scenes[i].captions = Some(OrEmptyList(pipe[i].captions))

\* A job with two narrated scenes was dispatched although the second scene's
\* pipeline had reached its upload before the first one's, and the two scenes
\* carry different captions.
C36_Witness ==
    /\ PerSceneRequest
    /\ Len(renderCalls) = 1
    /\ NarratedScenes = {1, 2}
    /\ uploadCalls[2][1].key.time < uploadCalls[1][1].key.time
    /\ renderCalls[1].scenes[1].captions = Some(<<>>)
    /\ renderCalls[1].scenes[2].captions = Some(<<Word(0, 1)>>)

\* C37: at every moment the request has at most one response, with status
\* 200, 400 or 500, none before it was received, and the render dispatcher
\* was called at most once; and when every external call eventually returns
\* or fails, a received request eventually has its response.
C37_ExactlyOneResponse ==
    /\ [](/\ Len(responses) <= 1
          /\ \A k \in 1..Len(responses) : responses[k].status \in {200, 400, 500}
          /\ Len(renderCalls) <= 1
          /\ ~Received => responses = <<>>)
    /\ (Received ~> Len(responses) = 1)

\* The handler answered 500 after one scene failed while the other scene's
\* pipeline was still running.
C37_Witness ==
    /\ PerSceneRequest
    /\ hpc = "done"
    /\ responses = <<InternalError>>
    /\ \E i, j \in NarratedScenes : pipe[i].pc = "failed" /\ InFlight(j)

\* C38 as stated: for one webhook call the handler attempts at most one
\* downstream POST, also when a POST attempt fails; so the downstream endpoint
\* is never sent the re-published notification and then the synthesized
\* error, nor two POSTs for one error notification.
C38_AtMostOnePost ==
    \A w \in WebhookCalls :
        /\ Len(postsSent[w]) <= 1
        /\ ~(\E j, k \in 1..Len(postsSent[w]) :
                /\ postsSent[w][j].type = Some("success")
                /\ postsSent[w][k] = SynthesizedError)
====
